---- MODULE Spec2Model ----
(***************************************************************************)
(* TimeAfterTime: the timesheet record store (Data), the add / remove /   *)
(* edit dialogs that mutate it, Data.save, and the main window's sessions: *)
(* start-up, new / open / delete timesheet, close.                         *)
(*                                                                         *)
(* Text representation.  A Python str that holds csv text is modelled as   *)
(* the sequence of its newline-terminated lines, and a line as the         *)
(* sequence of its characters (one-character strings) without the newline. *)
(* Every text the program builds here ends in a newline (the file written  *)
(* by NewTimesheetDialog.make_new, and `line + '\n'` in set_new_values),   *)
(* and no pattern or replacement handed to re.sub contains a newline, so   *)
(* the representation is exact: "a\n\nb\n" is << a, <<>>, b >>.            *)
(*                                                                         *)
(* Time base.  The dialogs read Data.timebase (editdialogs.py 75, 187,     *)
(* 418) and call Data.new_timebase (477, 479); the class Data at hand      *)
(* defines neither.  They are modelled as the specification describes the  *)
(* per-timesheet setting: "day" or "hour", read from the config file when  *)
(* the timesheet is opened, set and written back by new_timebase.          *)
(* str_to_date, format_duration and head_tail come from modules that are   *)
(* not at hand either and are modelled from the specification too.  So is  *)
(* ConfigParser: read_conf returns the file's keys and values, update_conf *)
(* writes one key and keeps the others, make_conf creates the file.        *)
(*                                                                         *)
(* Files.  The session's own csv and config file are the variables csvfile *)
(* and conffile; the directories of the other timesheets are `others`; the *)
(* operator Disk puts the two together.                                    *)
(***************************************************************************)
EXTENDS Integers, Sequences, FiniteSets, TLC

VARIABLES
    csv_data,    \* Data.csv_data: the in-memory csv text
    modified,    \* Data.modified: the dirty flag
    rate,        \* Data.rate
    currency,    \* Data.currency
    timebase,    \* Data.timebase ("day" or "hour"); see the note below
    csvfile,     \* content of the file Data.csvfile on disk
    conffile,    \* content of the file Data.conffile on disk (key -> value)
    rld,         \* TimeAfterTime.rld: the RemoveLineDialog (open?, snapshot)
    ed,          \* TimeAfterTime.ed: the EditLineDialog (open?, snapshot)
    alive,       \* the process is running
    ev,          \* the last handler that ran: its inputs, the state before it
                 \* and what it reported (history, for stating the properties)
    name,        \* TimeAfterTime.name
    project,     \* the project_name self.data was built with (PyNone: none)
    dir_exists,  \* the directory of Data.csvfile and Data.conffile exists
    others,      \* the other timesheet directories under datapath
    last,        \* the key `last` of the global config file, or Missing
    ntd,         \* TimeAfterTime.ntd: the NewTimesheetDialog
    otd,         \* TimeAfterTime.otd: the OpenTimesheetDialog
    dtd          \* TimeAfterTime.dtd: the DeleteTimesheetDialog

\* the main window's session and the files of the other timesheets
session == <<name, project, dir_exists, others, last, ntd, otd, dtd>>

vars == <<csv_data, modified, rate, currency, timebase, csvfile, conffile,
          rld, ed, alive, ev, session>>

----------------------------------------------------------------------------
(* Bounds *)

\* most data lines the store holds, in SpecAdd and SpecTable and in
\* SpecDirty: the user fills no more rows in the add dialog than fit
MaxRows == 3
MaxRowsDirty == 2
\* most data lines a timesheet holds in SpecSession
MaxRowsSession == 1
\* most rows (QLineEdit lines) filled in one AddLineDialog
MaxBatch == 3

----------------------------------------------------------------------------
(* Characters and literal texts *)

Digits == {"0", "1", "2", "3", "4", "5", "6", "7", "8", "9"}

\* 'Date,Duration,Activity,Rate', the first line of every csv file
Header ==
    << "D","a","t","e", ",", "D","u","r","a","t","i","o","n", ",",
       "A","c","t","i","v","i","t","y", ",", "R","a","t","e" >>

\* str(datetime.date.today()) on the day of the run
Today == << "2","0","2","6","-","1","1","-","0","6" >>

\* today in datefmt '%d %b %Y', the text makeLine puts in a new date field
TodayDMY == << "0","6"," ","N","o","v"," ","2","0","2","6" >>

\* field texts used below
Dur35   == << "3", ".", "5" >>
Dur130  == << "1", ":", "3", "0" >>
Dur15   == << "1", ".", "5" >>
ActA    == << "a" >>
Rate20  == << "2", "0" >>
Rate200 == << "2", "0", "0" >>
DurNeg  == << "-", "1" >>

\* Python's None, where a str may stand too; no text, a text being a
\* sequence of one-character strings
PyNone == << "None object" >>

\* a file that does not exist, or a key a config file does not hold
Missing == << "missing" >>

\* 'None': Data.name of the session without a timesheet, and the text
\* check_path writes for the key `last`
NoneText == << "N", "o", "n", "e" >>

\* names of timesheet directories under datapath
NameA   == << "a" >>
NameA_B == << "a", "_", "b" >>
DirNames == { NameA, NameA_B, NoneText }

\* a config file of a timesheet as the mapping read_conf returns; the keys
\* currency and timebase may be absent
NoConf ==
    [name |-> Missing, rate |-> Missing, currency |-> Missing,
     timebase |-> "unset"]

\* a timesheet directory: absent, or holding ts_<name>.csv and ts_<name>.conf
NoDir == [exists |-> FALSE, csv |-> << >>, conf |-> NoConf]

----------------------------------------------------------------------------
(* str.join, str.split, str.strip *)

RECURSIVE Join(_)
\* ','.join(fields)
Join(fields) ==
    IF Len(fields) = 0 THEN << >>
    ELSE IF Len(fields) = 1 THEN fields[1]
    ELSE fields[1] \o << "," >> \o Join(Tail(fields))

RECURSIVE SplitFrom(_, _, _)
SplitFrom(line, i, cur) ==
    IF i > Len(line) THEN << cur >>
    ELSE IF line[i] = "," THEN << cur >> \o SplitFrom(line, i + 1, << >>)
    ELSE SplitFrom(line, i + 1, Append(cur, line[i]))

\* line.split(',')
Split(line) == SplitFrom(line, 1, << >>)

RECURSIVE strip(_)
\* s.strip(): leading and trailing blanks removed
strip(s) ==
    IF Len(s) = 0 THEN s
    ELSE IF s[1] = " " THEN strip(Tail(s))
    ELSE IF s[Len(s)] = " " THEN strip(SubSeq(s, 1, Len(s) - 1))
    ELSE s

Reverse(s) == [i \in 1..Len(s) |-> s[Len(s) + 1 - i]]

----------------------------------------------------------------------------
(* re.sub(pattern, repl, string)                                           *)
(* The pattern is a row's text used as a regular expression: "." matches   *)
(* any character but a newline, every other character of the alphabet used *)
(* here (letters, digits, space, "," "-" ":") matches itself.  Matches are *)
(* leftmost and do not overlap; none spans a line, the pattern holding no  *)
(* newline.  The pattern is never empty (head_tail drops empty lines).     *)

MatchAt(pat, s, i) ==
    /\ i + Len(pat) - 1 <= Len(s)
    /\ \A k \in 1..Len(pat) : pat[k] = "." \/ pat[k] = s[i + k - 1]

RECURSIVE SubFrom(_, _, _, _)
SubFrom(pat, repl, s, i) ==
    IF i > Len(s) THEN << >>
    ELSE IF MatchAt(pat, s, i) THEN repl \o SubFrom(pat, repl, s, i + Len(pat))
    ELSE << s[i] >> \o SubFrom(pat, repl, s, i + 1)

\* a line the pattern matches nowhere is returned as it is
re_sub(pat, repl, text) ==
    [n \in 1..Len(text) |->
        IF \E i \in 1..Len(text[n]) : MatchAt(pat, text[n], i)
        THEN SubFrom(pat, repl, text[n], 1)
        ELSE text[n]]

----------------------------------------------------------------------------
(* Field validation and normalisation used by AddLineDialog.set_new_values *)

\* str_to_date(s) either returns a date or raises ValueError: the empty
\* string is today, a date in an accepted format is that date, anything
\* else does not parse.  ok = no ValueError; val = str() of the date.
str_to_date(s) ==
    IF s = << >> \/ s = TodayDMY \/ s = Today
    THEN [ok |-> TRUE, val |-> Today]
    ELSE [ok |-> FALSE, val |-> s]

\* float(s) does not raise ValueError, for s over digits, sign, "." and
\* the other characters used here: an optional sign, then digits with at
\* most one "." and at least one digit
float_ok(s) ==
    LET body == IF Len(s) > 0 /\ s[1] \in {"-", "+"} THEN Tail(s) ELSE s
    IN  /\ \A i \in 1..Len(body) : body[i] \in Digits \cup {"."}
        /\ Cardinality({i \in 1..Len(body) : body[i] = "."}) <= 1
        /\ \E i \in 1..Len(body) : body[i] \in Digits

\* format_duration(s), time base "hour": a non-negative decimal number of
\* hours is kept, "1:30" (hours:minutes) becomes "1.5", anything else
\* (unparseable, negative) raises ValueError
format_duration(s) ==
    IF float_ok(s) /\ s[1] # "-"
    THEN [ok |-> TRUE, val |-> s]
    ELSE IF s = Dur130
    THEN [ok |-> TRUE, val |-> Dur15]
    ELSE [ok |-> FALSE, val |-> s]

\* the duration branch of set_new_values: format_duration replaces the
\* field in hour mode; in day mode float() only tests it
check_duration(s, tb) ==
    IF tb = "hour" THEN format_duration(s)
    ELSE [ok |-> float_ok(s), val |-> s]

\* one pass of the loop body of set_new_values over a row of QLineEdit
\* texts <<date, duration, activity, rate>>:
\*   ok       - neither try block raised ValueError for this row
\*   line     - ','.join(line) as it is appended to newData
\*   reported - the values passed to invalid_value_message, in order
row_result(row, tb) ==
    LET d == str_to_date(row[1])
        u == check_duration(row[2], tb)
    IN  [ok       |-> d.ok /\ u.ok,
         line     |-> Join(<< d.val, u.val, row[3], row[4] >>),
         reported |-> (IF d.ok THEN << >> ELSE << row[1] >>)
                      \o (IF u.ok THEN << >> ELSE << row[2] >>)]

\* self.newData after the loop, as lines
newData(batch, tb) == [i \in 1..Len(batch) |-> row_result(batch[i], tb).line]

\* variants of `valid` with a slip: the flag is never cleared; the flag
\* holds the outcome of the last row only
valid_never_cleared(batch, tb) == TRUE
valid_of_last_row(batch, tb) == row_result(batch[Len(batch)], tb).ok

\* the flag `valid` after the loop: no row raised
valid(batch, tb) == \A i \in 1..Len(batch) : row_result(batch[i], tb).ok

RECURSIVE messages(_, _)
\* every invalid_value_message shown during the loop, in order
messages(batch, tb) ==
    IF Len(batch) = 0 THEN << >>
    ELSE row_result(batch[1], tb).reported \o messages(Tail(batch), tb)

\* Data.add_new: self.csv_data += new_data
add_new(csv, new_data) == csv \o new_data

----------------------------------------------------------------------------
(* The table dialogs (TableLineDiaolg and its two subclasses) *)

\* head_tail(csv_data): the header's column names and the data lines
head_tail(text) ==
    [header |-> Split(text[1]),
     data   |-> SelectSeq(Tail(text), LAMBDA l : l # << >>)]

\* TableLineDiaolg.initUI: self.csv_data is the data lines, newest first;
\* `date, dur, act, rate = data.split(',')` raises ValueError unless every
\* line has exactly four fields.  num_cols is len(header); no row text used
\* here matches inside the header line, so it stays 4.
initUI(text) ==
    LET ht == head_tail(text)
    IN  [ok       |-> \A i \in 1..Len(ht.data) : Len(Split(ht.data[i])) = 4,
         csv_data |-> Reverse(ht.data),
         num_cols |-> Len(ht.header)]

Closed == [open |-> FALSE, csv_data |-> << >>]

RECURSIVE remove_rows(_, _, _)
\* the loop of RemoveLineDialog.apply_changes over the selected table rows
\* (0-based), in the order the set yields them
remove_rows(text, snapshot, order) ==
    IF Len(order) = 0 THEN text
    ELSE remove_rows(re_sub(snapshot[order[1] + 1], << >>, text),
                     snapshot, Tail(order))

RECURSIVE edit_rows(_, _, _, _)
\* the loop of EditLineDialog.apply_changes from table row `row` (1-based
\* here) on: trows[row] is the table's text for the row, joined
edit_rows(text, snapshot, trows, row) ==
    IF row > Len(snapshot) THEN text
    ELSE edit_rows(IF trows[row] # snapshot[row]
                   THEN re_sub(snapshot[row], trows[row], text)
                   ELSE text,
                   snapshot, trows, row + 1)

\* variant with a slip: the edit loop never sets data.modified
edit_modifies_never(snapshot, trows) == FALSE

\* whether the loop of EditLineDialog.apply_changes sets data.modified
edit_modifies(snapshot, trows) ==
    \E row \in 1..Len(snapshot) : trows[row] # snapshot[row]

----------------------------------------------------------------------------
(* Inputs the user may type or select *)

\* rows of QLineEdit texts <<date, duration, activity, rate>> of AddLineDialog
RawRows ==
    { << TodayDMY,  Dur35,  ActA,  Rate20 >>,    \* passes in both time bases
      << << >>,     Dur130, ActA,  Rate20 >>,    \* duration passes in hour mode only
      << << "x" >>, Dur35,  ActA,  Rate20 >>,    \* date does not parse
      << TodayDMY,  Dur35,  << >>, Rate20 >> }   \* activity left blank

Batches == UNION { [1..n -> RawRows] : n \in 1..MaxBatch }

\* a single row with a negative duration
SignedRows == { << TodayDMY, DurNeg, ActA, Rate20 >> }

\* single rows for the add dialog that pass validation in day mode; the
\* text of the first is a prefix of the text of the second
PlainRows ==
    { << TodayDMY, Dur35, ActA, Rate20 >>,
      << << >>,    Dur35, ActA, Rate200 >> }

\* what the user may leave in the four cells of a table row of EditLineDialog
EditCells ==
    { << Today, Dur35, ActA, Rate20 >>,
      << Today, Dur35, ActA, Rate200 >> }

\* the row's cells are left as the dialog filled them
Keep == << >>

\* texts of the rate and currency fields of NewRateDialog
RateTexts == { << " " >>, << "1", "5", " " >> }
CurrencyTexts == { << >>, << "$" >> }

\* csv files written by earlier runs of the program, any of which the main
\* window may find when it opens the timesheet
LineA == Join(<< Today, Dur35, ActA, Rate20 >>)
LineB == Join(<< Today, Dur35, ActA, Rate200 >>)
InitFiles == { << Header >>, << Header, LineA >>, << Header, LineA, LineB >> }

\* the sequences without repetition over a finite set: every order in which
\* iterating a Python set of that content may yield its elements
RECURSIVE Orders(_)
Orders(S) ==
    IF S = {} THEN { << >> }
    ELSE UNION { { << x >> \o o : o \in Orders(S \ {x}) } : x \in S }

----------------------------------------------------------------------------
(* History record *)

Ev(op) ==
    [op           |-> op,
     pre_csv      |-> << >>,     \* csv_data before the handler
     pre_modified |-> FALSE,     \* modified before the handler
     pre_file     |-> << >>,     \* csvfile before the handler
     wrote        |-> FALSE,     \* the handler opened csvfile for writing
     rows         |-> << >>,     \* set_new_values: the rows of QLineEdit texts
     snapshot     |-> << >>,     \* apply_changes: the dialog's self.csv_data
     order        |-> << >>,     \* remove: the selected table rows, as iterated
     trows        |-> << >>,     \* edit: the table's rows, joined
     reported     |-> << >>,     \* values shown in warning boxes
     accepted     |-> FALSE,     \* the dialog called self.accept()
     config       |-> "none",    \* saveChanges: the attribute new_rate or
                                 \* new_currency set ("rate", "currency")
     raised       |-> FALSE,     \* an exception left the handler
     pre_name     |-> << >>,     \* TimeAfterTime.name before the handler
     pre_project  |-> << >>,     \* the session's project before the handler
     pre_last     |-> << >>,     \* the global key `last` before the handler
     pre_disk     |-> << >>,     \* every timesheet directory before it
     typed        |-> << >>,     \* make_new: the name and rate fields
     selected     |-> {},        \* the timesheets selected in a list dialog
     choice       |-> "none",    \* the button pressed in a message box
     prompt       |-> "none",    \* make_new: what maybeSave was answered
     closed       |-> << >>]     \* initUI: the project the last run of the
                                 \* program closed with (Missing: it did
                                 \* not end in closeEvent)

Before(op) ==
    [Ev(op) EXCEPT !.pre_csv = csv_data, !.pre_modified = modified,
                   !.pre_file = csvfile]

----------------------------------------------------------------------------
(* Initial state: the main window has opened a timesheet (Data.__init__    *)
(* read the csv and config files, supplied the currency default and wrote  *)
(* it back); no dialog is open                                             *)

DefaultCurrency == << "P" >>

\* the three file dialogs, not shown
NtdClosed == [open |-> FALSE, prompt |-> "none"]
ListClosed == [open |-> FALSE, timesheets |-> {}]

Init ==
    /\ csvfile \in InitFiles
    /\ csv_data = csvfile
    /\ modified = FALSE
    /\ rate = << "2", "0" >>
    /\ currency = DefaultCurrency
    /\ timebase \in {"day", "hour"}
    /\ conffile = [name |-> NameA, rate |-> rate, currency |-> currency,
                   timebase |-> timebase]
    /\ rld = Closed
    /\ ed = Closed
    /\ alive = TRUE
    /\ ev = Ev("init")
    /\ name = NameA
    /\ project = NameA
    /\ dir_exists = TRUE
    /\ others = [n \in DirNames |-> NoDir]
    /\ last = NameA
    /\ ntd = NtdClosed
    /\ otd = ListClosed
    /\ dtd = ListClosed

\* An exception that leaves a slot is printed and the event loop goes on, or
\* (PyQt5 from 5.5 on, no sys.excepthook installed) the process is aborted.
Raise(aborts) == alive' = ~aborts

----------------------------------------------------------------------------
(* AddLineDialog *)

\* AddLineDialog.set_new_values, the OK button of the add dialog, with the
\* texts of its rows
set_new_values(batch) ==
    /\ alive
    /\ IF valid(batch, timebase)
       THEN /\ csv_data' = add_new(csv_data, newData(batch, timebase))
            /\ modified' = TRUE
       ELSE UNCHANGED <<csv_data, modified>>
    /\ ev' = [Before("set_new_values") EXCEPT
                !.rows = batch,
                !.reported = messages(batch, timebase),
                !.accepted = valid(batch, timebase)]
    /\ UNCHANGED <<rate, currency, timebase, csvfile, conffile, rld, ed, alive>>
    /\ UNCHANGED session

----------------------------------------------------------------------------
(* RemoveLineDialog *)

\* TimeAfterTime.removeLine: self.rld = RemoveLineDialog(self.data)
removeLine(aborts) ==
    /\ alive
    /\ LET ui == initUI(csv_data)
       IN  IF ui.ok
           THEN /\ rld' = [open |-> TRUE, csv_data |-> ui.csv_data]
                /\ ev' = Ev("removeLine")
                /\ UNCHANGED alive
           ELSE /\ Raise(aborts)
                /\ ev' = [Before("removeLine") EXCEPT !.raised = TRUE]
                /\ UNCHANGED rld
    /\ UNCHANGED <<csv_data, modified, rate, currency, timebase, csvfile,
                   conffile, ed>>
    /\ UNCHANGED session

\* RemoveLineDialog.apply_changes, the OK button, with the selected rows
RemoveLineDialog_apply_changes(order) ==
    /\ alive
    /\ rld.open
    /\ csv_data' = remove_rows(csv_data, rld.csv_data, order)
    /\ modified' = (modified \/ Len(order) > 0)
    /\ rld' = Closed
    /\ ev' = [Before("remove") EXCEPT
                !.snapshot = rld.csv_data, !.order = order, !.accepted = TRUE]
    /\ UNCHANGED <<rate, currency, timebase, csvfile, conffile, ed, alive>>
    /\ UNCHANGED session

\* the Cancel button of the remove dialog
RemoveLineDialog_reject ==
    /\ alive
    /\ rld.open
    /\ rld' = Closed
    /\ ev' = Ev("remove_reject")
    /\ UNCHANGED <<csv_data, modified, rate, currency, timebase, csvfile,
                   conffile, ed, alive>>
    /\ UNCHANGED session

----------------------------------------------------------------------------
(* EditLineDialog *)

\* TimeAfterTime.editEntries: self.ed = EditLineDialog(self.data)
editEntries(aborts) ==
    /\ alive
    /\ LET ui == initUI(csv_data)
       IN  IF ui.ok
           THEN /\ ed' = [open |-> TRUE, csv_data |-> ui.csv_data]
                /\ ev' = Ev("editEntries")
                /\ UNCHANGED alive
           ELSE /\ Raise(aborts)
                /\ ev' = [Before("editEntries") EXCEPT !.raised = TRUE]
                /\ UNCHANGED ed
    /\ UNCHANGED <<csv_data, modified, rate, currency, timebase, csvfile,
                   conffile, rld>>
    /\ UNCHANGED session

\* the table's text for each row: the cells the dialog filled from
\* data.split(','), or what the user typed over them, joined again
table_rows(snapshot, cells) ==
    [r \in 1..Len(snapshot) |->
        Join(IF cells[r] = Keep THEN Split(snapshot[r]) ELSE cells[r])]

\* EditLineDialog.apply_changes, the OK button, with the table's cells
EditLineDialog_apply_changes(cells) ==
    /\ alive
    /\ ed.open
    /\ LET trows == table_rows(ed.csv_data, cells)
       IN  /\ csv_data' = edit_rows(csv_data, ed.csv_data, trows, 1)
           /\ modified' = (modified \/ edit_modifies(ed.csv_data, trows))
           /\ ev' = [Before("edit") EXCEPT
                       !.snapshot = ed.csv_data, !.trows = trows,
                       !.accepted = TRUE]
    /\ ed' = Closed
    /\ UNCHANGED <<rate, currency, timebase, csvfile, conffile, rld, alive>>
    /\ UNCHANGED session

\* the Cancel button of the edit dialog
EditLineDialog_reject ==
    /\ alive
    /\ ed.open
    /\ ed' = Closed
    /\ ev' = Ev("edit_reject")
    /\ UNCHANGED <<csv_data, modified, rate, currency, timebase, csvfile,
                   conffile, rld, alive>>
    /\ UNCHANGED session

----------------------------------------------------------------------------
(* Save *)

\* variant with a slip: the file is written whether or not self.modified
Data_save_unguarded ==
    /\ alive
    /\ csvfile' = csv_data
    /\ ev' = [Before("save") EXCEPT !.wrote = TRUE]
    /\ UNCHANGED <<csv_data, modified, rate, currency, timebase, conffile,
                   rld, ed, alive>>
    /\ UNCHANGED session

\* `with open(self.csvfile, 'w')` raises: Data(None) has no attribute
\* csvfile (AttributeError), or the file's directory is gone
\* (FileNotFoundError)
save_raises == modified /\ (project = PyNone \/ ~dir_exists)

\* Data.save, reached from TimeAfterTime.save (the Save action): the file is
\* written if self.modified; self.modified is not assigned
Data_save ==
    /\ alive
    /\ IF save_raises
       THEN /\ \E aborts \in BOOLEAN : Raise(aborts)
            /\ ev' = [Before("save") EXCEPT !.raised = TRUE]
            /\ UNCHANGED csvfile
       ELSE /\ IF modified THEN csvfile' = csv_data ELSE UNCHANGED csvfile
            /\ ev' = [Before("save") EXCEPT !.wrote = modified]
            /\ UNCHANGED alive
    /\ UNCHANGED <<csv_data, modified, rate, currency, timebase, conffile,
                   rld, ed>>
    /\ UNCHANGED session

\* Data.save when the process is stopped (killed, power lost) inside the
\* `with` block: open(self.csvfile, 'w') has truncated the file, and of the
\* text handed to write() the first `cut` lines have reached the file
Data_save_interrupted(cut) ==
    /\ alive
    /\ modified
    /\ ~save_raises
    /\ csvfile' = SubSeq(csv_data, 1, cut)
    /\ alive' = FALSE
    /\ ev' = Before("save_interrupted")
    /\ UNCHANGED <<csv_data, modified, rate, currency, timebase, conffile,
                   rld, ed>>
    /\ UNCHANGED session

----------------------------------------------------------------------------
(* NewRateDialog *)

\* Data.new_rate / Data.new_currency: the attribute is set, then evaluating
\* the argument self.value of update_conf raises AttributeError (Data has no
\* attribute `value`), so the config file is not written and the caller's
\* handler is left.  The result is the attribute's new value.
new_rate(value) == value
new_currency(value) == value

\* NewRateDialog.saveChanges, the OK button, with the texts of the rate and
\* currency fields and the checked time base
saveChanges(rateText, tb, currText, aborts) ==
    /\ alive
    /\ IF strip(rateText) # << >>
       THEN \* self.data.new_rate(rate) raises
            /\ rate' = new_rate(strip(rateText))
            /\ Raise(aborts)
            /\ ev' = [Before("saveChanges") EXCEPT
                        !.raised = TRUE, !.config = "rate"]
            /\ UNCHANGED <<currency, timebase, conffile>>
       ELSE \* error_message('rate of pay'); new_timebase; then the currency
            /\ timebase' = tb
            /\ conffile' = [conffile EXCEPT !.timebase = tb]
            /\ UNCHANGED rate
            /\ IF strip(currText) # << >>
               THEN /\ currency' = new_currency(strip(currText))
                    /\ Raise(aborts)
                    /\ ev' = [Before("saveChanges") EXCEPT
                                !.raised = TRUE, !.config = "currency",
                                !.reported = << << "rate of pay" >> >>]
               ELSE /\ UNCHANGED <<currency, alive>>
                    /\ ev' = [Before("saveChanges") EXCEPT
                                !.reported = << << "rate of pay" >>,
                                                << "currency" >> >>]
    /\ UNCHANGED <<csv_data, modified, csvfile, rld, ed>>
    /\ UNCHANGED session

----------------------------------------------------------------------------
(* The timesheet directories and Data.__init__ *)

\* every timesheet directory under datapath: the session's own, and the others
Disk ==
    [n \in DirNames |->
        IF n = project
        THEN [exists |-> dir_exists, csv |-> csvfile, conf |-> conffile]
        ELSE others[n]]

BeforeS(op) ==
    [Before(op) EXCEPT !.pre_name = name, !.pre_project = project,
                       !.pre_last = last, !.pre_disk = Disk]

\* the directories become `disk`; the session stays the one of `project`
SetDisk(disk) ==
    IF project = PyNone
    THEN /\ others' = disk
         /\ UNCHANGED <<dir_exists, csvfile, conffile>>
    ELSE /\ others' = [disk EXCEPT ![project] = NoDir]
         /\ dir_exists' = disk[project].exists
         /\ csvfile' = disk[project].csv
         /\ conffile' = disk[project].conf

\* the time base of a session whose config file names none, and of the
\* session without a timesheet
default_timebase == "day"

\* the config file after Data.__init__: a missing currency is written back
conf_read(conf) ==
    IF conf.currency = Missing
    THEN [conf EXCEPT !.currency = DefaultCurrency]
    ELSE conf

\* self.data = Data(project_name), the directories being `disk`.  Without a
\* project the attributes are set to empty texts and no file is touched;
\* with one, the directory exists (the caller has looked), the csv and
\* config files are read.  The time base is the default unless the config
\* file says otherwise.
Data_init(project_name, disk) ==
    IF project_name = PyNone
    THEN /\ csv_data' = << >>
         /\ rate' = << >>
         /\ currency' = << >>
         /\ timebase' = default_timebase
         /\ modified' = FALSE
         /\ project' = PyNone
         /\ dir_exists' = FALSE
         /\ csvfile' = << >>
         /\ conffile' = NoConf
         /\ others' = disk
    ELSE LET conf == conf_read(disk[project_name].conf)
         IN  /\ csv_data' = disk[project_name].csv
             /\ rate' = conf.rate
             /\ currency' = conf.currency
             /\ timebase' = (IF conf.timebase = "unset" THEN default_timebase
                             ELSE conf.timebase)
             /\ modified' = FALSE
             /\ project' = project_name
             /\ dir_exists' = TRUE
             /\ csvfile' = disk[project_name].csv
             /\ conffile' = conf
             /\ others' = [disk EXCEPT ![project_name] = NoDir]

\* what Data leaves alone when it is not rebuilt
data_vars == <<csv_data, modified, rate, currency, timebase, project>>
file_vars == <<dir_exists, csvfile, conffile, others>>

----------------------------------------------------------------------------
(* Start-up and close *)

\* TimeAfterTime.initUI when the program is started: check_path and
\* get_last_opened (a missing global config file is created with last=None),
\* then Data(previous).  Data raises FileNotFoundError if the directory is
\* gone, and the program does not start.
TimeAfterTime_initUI ==
    /\ ~alive
    /\ LET conf     == IF last = Missing THEN NoneText ELSE last
           previous == IF conf = NoneText THEN PyNone ELSE conf
           closed   == IF ev.op = "closeEvent" THEN ev.pre_project
                       ELSE Missing
       IN  /\ last' = conf
           /\ IF previous # PyNone /\ ~Disk[previous].exists
              THEN /\ ev' = [BeforeS("initUI") EXCEPT
                               !.raised = TRUE, !.closed = closed]
                   /\ UNCHANGED <<data_vars, file_vars, name, alive>>
              ELSE /\ Data_init(previous, Disk)
                   /\ name' = (IF previous = PyNone THEN NoneText
                               ELSE Disk[previous].conf.name)
                   /\ alive' = TRUE
                   /\ ev' = [BeforeS("initUI") EXCEPT !.closed = closed]
    /\ rld' = Closed
    /\ ed' = Closed
    /\ ntd' = NtdClosed
    /\ otd' = ListClosed
    /\ dtd' = ListClosed

\* TimeAfterTime.closeEvent: self.save(), then the key `last` is written.
\* If save raises, the key is not written; the event stays accepted and the
\* window closes all the same.
closeEvent ==
    /\ alive
    /\ IF save_raises
       THEN /\ ev' = [BeforeS("closeEvent") EXCEPT !.raised = TRUE]
            /\ UNCHANGED <<csvfile, last>>
       ELSE /\ IF modified THEN csvfile' = csv_data ELSE UNCHANGED csvfile
            /\ last' = name
            /\ ev' = [BeforeS("closeEvent") EXCEPT !.wrote = modified]
    /\ alive' = FALSE
    /\ UNCHANGED <<data_vars, dir_exists, conffile, others, name, rld, ed,
                   ntd, otd, dtd>>

----------------------------------------------------------------------------
(* NewTimesheetDialog *)

\* the answers maybeSave can get: no box is shown unless self.data.modified
Choices == IF modified THEN {"save", "discard", "cancel"} ELSE {"none"}

\* TimeAfterTime.newTimesheet: maybeSave(), whose result is not looked at,
\* then the dialog is shown.  Save calls self.save(); if that raises, the
\* handler is left before the dialog is made.
newTimesheet(choice) ==
    /\ alive
    /\ choice \in Choices
    /\ IF choice = "save" /\ save_raises
       THEN /\ \E aborts \in BOOLEAN : Raise(aborts)
            /\ ev' = [BeforeS("newTimesheet") EXCEPT
                        !.raised = TRUE, !.choice = choice]
            /\ UNCHANGED <<csvfile, ntd>>
       ELSE /\ IF choice = "save" THEN csvfile' = csv_data
               ELSE UNCHANGED csvfile
            /\ ntd' = [open |-> TRUE, prompt |-> choice]
            /\ ev' = [BeforeS("newTimesheet") EXCEPT
                        !.wrote = (choice = "save"), !.choice = choice]
            /\ UNCHANGED alive
    /\ UNCHANGED <<data_vars, dir_exists, conffile, others, name, last,
                   rld, ed, otd, dtd>>

\* re.sub('\s', '_', self.name)
underscored(s) == [i \in 1..Len(s) |-> IF s[i] = " " THEN "_" ELSE s[i]]

\* the directory and the two files make_new creates
new_dir(nm, rateEdit) ==
    [exists |-> TRUE,
     csv    |-> << Header >>,
     conf   |-> [name |-> nm, rate |-> rateEdit, currency |-> Missing,
                 timebase |-> "unset"]]

\* NewTimesheetDialog.make_new, the OK button, with self.name and self.rate
\* as setName and setRate left them (PyNone: the field was never typed in).
\* os.mkdir raises FileExistsError for a name that is taken, and for the
\* empty name, whose path is datapath itself.  On success the dialog is
\* accepted and TimeAfterTime.setTimesheet runs.
make_new(nameEdit, rateEdit) ==
    /\ alive
    /\ ntd.open
    /\ LET nm == underscored(nameEdit)
       IN  IF nameEdit = PyNone
           THEN /\ ev' = [BeforeS("make_new") EXCEPT
                            !.typed = << nameEdit, rateEdit >>,
                            !.prompt = ntd.prompt,
                            !.reported = << << "name_message" >> >>]
                /\ UNCHANGED <<data_vars, file_vars, name, ntd>>
           ELSE IF rateEdit = PyNone
           THEN /\ ev' = [BeforeS("make_new") EXCEPT
                            !.typed = << nameEdit, rateEdit >>,
                            !.prompt = ntd.prompt,
                            !.reported = << << "rate_message" >> >>]
                /\ UNCHANGED <<data_vars, file_vars, name, ntd>>
           ELSE IF nm = << >> \/ Disk[nm].exists
           THEN /\ ev' = [BeforeS("make_new") EXCEPT
                            !.typed = << nameEdit, rateEdit >>,
                            !.prompt = ntd.prompt,
                            !.reported = << << "name_error" >> >>]
                /\ UNCHANGED <<data_vars, file_vars, name, ntd>>
           ELSE /\ Data_init(nm, [Disk EXCEPT ![nm] = new_dir(nm, rateEdit)])
                /\ name' = nm
                /\ ntd' = NtdClosed
                /\ ev' = [BeforeS("make_new") EXCEPT
                            !.typed = << nameEdit, rateEdit >>,
                            !.prompt = ntd.prompt,
                            !.accepted = TRUE]
    /\ UNCHANGED <<last, rld, ed, otd, dtd, alive>>

\* the Cancel button of the new-timesheet dialog
NewTimesheetDialog_reject ==
    /\ alive
    /\ ntd.open
    /\ ntd' = NtdClosed
    /\ ev' = Ev("ntd_reject")
    /\ UNCHANGED <<data_vars, file_vars, name, last, rld, ed, otd, dtd, alive>>

----------------------------------------------------------------------------
(* OpenTimesheetDialog and DeleteTimesheetDialog *)

\* TimesheetsFileDialog.initUI: the directories under datapath
timesheets == {n \in DirNames : Disk[n].exists}

\* TimeAfterTime.open: self.otd = OpenTimesheetDialog().  With no timesheet
\* the base class shows none_message and makes no list, and the subclass's
\* self.timesheetList.setSelectionMode raises AttributeError.
open(aborts) ==
    /\ alive
    /\ IF timesheets = {}
       THEN /\ Raise(aborts)
            /\ ev' = [Ev("open") EXCEPT
                        !.raised = TRUE,
                        !.reported = << << "none_message" >> >>]
            /\ UNCHANGED otd
       ELSE /\ otd' = [open |-> TRUE, timesheets |-> timesheets]
            /\ ev' = Ev("open")
            /\ UNCHANGED alive
    /\ UNCHANGED <<data_vars, file_vars, name, last, rld, ed, ntd, dtd>>

\* OpenTimesheetDialog.get_selected, the OK button with one timesheet
\* selected: the dialog is accepted and TimeAfterTime.setOpenVars runs, which
\* sets self.name and then builds Data; Data raises FileNotFoundError if the
\* directory has gone since the list was made.
OpenTimesheetDialog_get_selected(sel, aborts) ==
    /\ alive
    /\ otd.open
    /\ sel \in otd.timesheets
    /\ name' = sel
    /\ otd' = ListClosed
    /\ IF Disk[sel].exists
       THEN /\ Data_init(sel, Disk)
            /\ ev' = [BeforeS("setOpenVars") EXCEPT
                        !.selected = {sel}, !.accepted = TRUE]
            /\ UNCHANGED alive
       ELSE /\ Raise(aborts)
            /\ ev' = [BeforeS("setOpenVars") EXCEPT
                        !.selected = {sel}, !.accepted = TRUE,
                        !.raised = TRUE]
            /\ UNCHANGED <<data_vars, file_vars>>
    /\ UNCHANGED <<last, rld, ed, ntd, dtd>>

\* the Cancel button of the open dialog
OpenTimesheetDialog_reject ==
    /\ alive
    /\ otd.open
    /\ otd' = ListClosed
    /\ ev' = Ev("otd_reject")
    /\ UNCHANGED <<data_vars, file_vars, name, last, rld, ed, ntd, dtd, alive>>

\* TimeAfterTime.deleteTimesheet: self.dtd = DeleteTimesheetDialog(), which
\* fails as the open dialog does when there is no timesheet
deleteTimesheet(aborts) ==
    /\ alive
    /\ IF timesheets = {}
       THEN /\ Raise(aborts)
            /\ ev' = [Ev("deleteTimesheet") EXCEPT
                        !.raised = TRUE,
                        !.reported = << << "none_message" >> >>]
            /\ UNCHANGED dtd
       ELSE /\ dtd' = [open |-> TRUE, timesheets |-> timesheets]
            /\ ev' = Ev("deleteTimesheet")
            /\ UNCHANGED alive
    /\ UNCHANGED <<data_vars, file_vars, name, last, rld, ed, ntd, otd>>

\* the directories after `rm -r` of each selected one
removed(disk, selected) ==
    [n \in DirNames |-> IF n \in selected THEN NoDir ELSE disk[n]]

\* DeleteTimesheetDialog.get_selected and confirm_message, the OK button
\* with the selected timesheets and the answer to 'Confirm deletion?'.
\* Yes removes the directories and accepts the dialog, and
\* TimeAfterTime.reset runs: if self.name is among the selected, the session
\* becomes Data(None) and last=None is written.  Yes with nothing selected
\* does nothing; No rejects the dialog.
DeleteTimesheetDialog_get_selected(selected, yes) ==
    /\ alive
    /\ dtd.open
    /\ selected \subseteq dtd.timesheets
    /\ IF ~yes
       THEN /\ dtd' = ListClosed
            /\ ev' = [BeforeS("delete") EXCEPT
                        !.selected = selected, !.choice = "no"]
            /\ UNCHANGED <<data_vars, file_vars, name, last>>
       ELSE IF selected = {}
       THEN /\ ev' = [BeforeS("delete") EXCEPT
                        !.selected = selected, !.choice = "yes"]
            /\ UNCHANGED <<data_vars, file_vars, name, last, dtd>>
       ELSE /\ dtd' = ListClosed
            /\ ev' = [BeforeS("delete") EXCEPT
                        !.selected = selected, !.choice = "yes",
                        !.accepted = TRUE]
            /\ IF name \in selected
               THEN /\ Data_init(PyNone, removed(Disk, selected))
                    /\ name' = NoneText
                    /\ last' = NoneText
               ELSE /\ SetDisk(removed(Disk, selected))
                    /\ UNCHANGED <<data_vars, name, last>>
    /\ UNCHANGED <<rld, ed, ntd, otd, alive>>

\* the Cancel button of the delete dialog
DeleteTimesheetDialog_reject ==
    /\ alive
    /\ dtd.open
    /\ dtd' = ListClosed
    /\ ev' = Ev("dtd_reject")
    /\ UNCHANGED <<data_vars, file_vars, name, last, rld, ed, ntd, otd, alive>>

\* texts of the name and rate fields of NewTimesheetDialog
NameEdits == { PyNone, << >>, NameA, << "a", " ", "b" >>, NameA_B, NoneText }
RateEdits == { PyNone, << >>, Rate20 }

----------------------------------------------------------------------------
(* Specifications *)

\* the rows typed into the add dialog fit the bound on the store
Fits(batch, cap) == Len(csv_data) - 1 + Len(batch) <= cap

\* the selections of RemoveLineDialog: any set of table rows, iterated in
\* any order
Selections == UNION { Orders(S) : S \in SUBSET (0..(Len(rld.csv_data) - 1)) }

\* the tables of EditLineDialog: each row kept or overwritten
Tables == [1..Len(ed.csv_data) -> EditCells \cup {Keep}]

\* SpecAdd: the add dialog and Save, in either time base; the process may be
\* stopped during a save
NextAdd ==
    \/ \E batch \in Batches : Fits(batch, MaxRows) /\ set_new_values(batch)
    \/ \E row \in SignedRows :
          Fits(<< row >>, MaxRows) /\ set_new_values(<< row >>)
    \/ Data_save
    \/ \E cut \in 0..Len(csv_data) : Data_save_interrupted(cut)

SpecAdd == Init /\ [][NextAdd]_vars

\* SpecTable: the remove and edit dialogs, both of which may be open at once
\* (they are shown non-modally), over rows added in day mode
InitTable == Init /\ timebase = "day" /\ csvfile = << Header >>

NextTable ==
    \/ \E row \in PlainRows :
          Fits(<< row >>, MaxRows) /\ set_new_values(<< row >>)
    \/ \E aborts \in BOOLEAN : removeLine(aborts)
    \/ \E order \in Selections : RemoveLineDialog_apply_changes(order)
    \/ RemoveLineDialog_reject
    \/ \E aborts \in BOOLEAN : editEntries(aborts)
    \/ \E cells \in Tables : EditLineDialog_apply_changes(cells)
    \/ EditLineDialog_reject

SpecTable == InitTable /\ [][NextTable]_vars

\* SpecDirty: every handler that changes Data, for a user who finishes with
\* one table dialog before opening the other and leaves the time base of
\* NewRateDialog as it is shown
InitDirty == Init /\ timebase = "day"

NextDirty ==
    \/ \E row \in PlainRows :
          Fits(<< row >>, MaxRowsDirty) /\ set_new_values(<< row >>)
    \/ \E aborts \in BOOLEAN : ~ed.open /\ removeLine(aborts)
    \/ \E order \in Selections : RemoveLineDialog_apply_changes(order)
    \/ RemoveLineDialog_reject
    \/ \E aborts \in BOOLEAN : ~rld.open /\ editEntries(aborts)
    \/ \E cells \in Tables : EditLineDialog_apply_changes(cells)
    \/ EditLineDialog_reject
    \/ \E rateText \in RateTexts, currText \in CurrencyTexts,
          aborts \in BOOLEAN :
          saveChanges(rateText, timebase, currText, aborts)

SpecDirty == InitDirty /\ [][NextDirty]_vars

\* SpecSession: the program from its first start on: the main window's file
\* dialogs, the add dialog, Save and close, and the next start of the
\* program.  The dialogs are shown non-modally, so any of them may be open
\* at once.  The user types one of two names and a rate into the
\* new-timesheet dialog (SpecNew has the other texts).  Before the first
\* start datapath does not exist: no global config file, no timesheet.
InitSession ==
    /\ alive = FALSE
    /\ last = Missing
    /\ others = [n \in DirNames |-> NoDir]
    /\ project = PyNone
    /\ dir_exists = FALSE
    /\ csvfile = << >>
    /\ conffile = NoConf
    /\ csv_data = << >>
    /\ modified = FALSE
    /\ rate = << >>
    /\ currency = << >>
    /\ timebase = default_timebase
    /\ name = NoneText
    /\ rld = Closed
    /\ ed = Closed
    /\ ntd = NtdClosed
    /\ otd = ListClosed
    /\ dtd = ListClosed
    /\ ev = Ev("init")

NextSession ==
    \/ TimeAfterTime_initUI
    \/ closeEvent
    \/ \E choice \in {"none", "save", "discard", "cancel"} :
          newTimesheet(choice)
    \/ \E nameEdit \in {NameA, NoneText} : make_new(nameEdit, Rate20)
    \/ NewTimesheetDialog_reject
    \/ \E aborts \in BOOLEAN : open(aborts)
    \/ \E sel \in otd.timesheets, aborts \in BOOLEAN :
          OpenTimesheetDialog_get_selected(sel, aborts)
    \/ OpenTimesheetDialog_reject
    \/ \E aborts \in BOOLEAN : deleteTimesheet(aborts)
    \/ \E selected \in SUBSET dtd.timesheets, yes \in BOOLEAN :
          DeleteTimesheetDialog_get_selected(selected, yes)
    \/ DeleteTimesheetDialog_reject
    \/ Fits(<< LineA >>, MaxRowsSession)
          /\ set_new_values(<< << TodayDMY, Dur35, ActA, Rate20 >> >>)
    \/ Data_save

SpecSession == InitSession /\ [][NextSession]_vars

\* SpecNew: the new-timesheet dialog with every text of its two fields, the
\* add dialog, Save and close, and the next start of the program
NextNew ==
    \/ TimeAfterTime_initUI
    \/ closeEvent
    \/ \E choice \in {"none", "save", "discard", "cancel"} :
          newTimesheet(choice)
    \/ \E nameEdit \in NameEdits, rateEdit \in RateEdits :
          make_new(nameEdit, rateEdit)
    \/ NewTimesheetDialog_reject
    \/ Fits(<< LineA >>, MaxRowsSession)
          /\ set_new_values(<< << TodayDMY, Dur35, ActA, Rate20 >> >>)
    \/ Data_save

SpecNew == InitSession /\ [][NextNew]_vars

----------------------------------------------------------------------------
(* Properties.  Each is stated over the record ev of the last handler.     *)

\* the rows of an add-dialog batch that fail / pass validation
Failing(batch, tb) == {i \in 1..Len(batch) : ~row_result(batch[i], tb).ok}

RECURSIVE PassingLines(_, _)
PassingLines(batch, tb) ==
    IF Len(batch) = 0 THEN << >>
    ELSE (IF row_result(batch[1], tb).ok
          THEN << row_result(batch[1], tb).line >> ELSE << >>)
         \o PassingLines(Tail(batch), tb)

AddRan == ev.op = "set_new_values"

\* C1 (as claimed): after save() on a session whose dirty flag was true, the
\* csv file equals the in-memory csv_data and the dirty flag is false.
C1_SaveWritesAndClearsDirty ==
    (ev.op = "save" /\ ev.pre_modified) => (csvfile = csv_data /\ ~modified)

\* C2: save() on a session whose dirty flag is false performs no write and
\* leaves the csv file, csv_data and the dirty flag as they were.
C2_SaveCleanIsNoop ==
    (ev.op = "save" /\ ~ev.pre_modified) =>
        /\ ~ev.wrote
        /\ csvfile = ev.pre_file
        /\ csv_data = ev.pre_csv
        /\ modified = ev.pre_modified

\* C2 witness: Save ran on a clean session that holds data rows.
C2_Witness ==
    ev.op = "save" /\ ~ev.pre_modified /\ Len(ev.pre_csv) > 1

C4_AppendRejectsBlankActivity ==
    AddRan =>
        \A i \in (Len(ev.pre_csv) + 1)..Len(csv_data) :
            Split(csv_data[i])[3] # << >>

\* C5: a batch with a row that fails date or duration validation leaves
\* csv_data and the dirty flag as they were.
C5_InvalidAppendChangesNothing ==
    (AddRan /\ Failing(ev.rows, timebase) # {}) =>
        (csv_data = ev.pre_csv /\ modified = ev.pre_modified)

\* C5 witness: a batch whose first row passes and whose last row fails was
\* submitted to a clean store that holds data rows.
C5_Witness ==
    /\ AddRan
    /\ Len(ev.rows) >= 2
    /\ 1 \notin Failing(ev.rows, timebase)
    /\ Len(ev.rows) \in Failing(ev.rows, timebase)
    /\ Len(ev.pre_csv) > 1
    /\ ~ev.pre_modified

----------------------------------------------------------------------------
(* Properties of the table dialogs *)

\* the dialog's snapshot is the store as it was when OK was pressed: a header
\* line and the snapshot's rows, oldest first, and nothing else
Fresh == ev.pre_csv = << Header >> \o Reverse(ev.snapshot)

\* the data rows at the positions whose table row (newest first, 0-based) is
\* not in S, in their order
RowsNotSelected(data, S) ==
    LET n    == Len(data)
        kept == SelectSeq([p \in 1..n |-> p], LAMBDA p : (n - p) \notin S)
    IN  [k \in 1..Len(kept) |-> data[kept[k]]]

Selected == {ev.order[k] : k \in 1..Len(ev.order)}

\* the table rows whose text differs from the snapshot's
Edited == {r \in 1..Len(ev.snapshot) : ev.trows[r] # ev.snapshot[r]}

\* an edited table row whose snapshot text is no longer the store's row at
\* that position
StaleRows ==
    LET data == head_tail(ev.pre_csv).data
        n    == Len(ev.snapshot)
    IN  {r \in Edited :
            \/ n - r + 1 > Len(data)
            \/ data[n - r + 1] # ev.snapshot[r]}

\* C6 (as claimed): removing a selection from a store the dialog shows as it
\* is leaves the header and exactly the rows at the positions not selected,
\* unchanged and in order, with no empty line.
C6_RemoveDeletesSelectedRows ==
    (ev.op = "remove" /\ Fresh) =>
        csv_data = << Header >> \o RowsNotSelected(Tail(ev.pre_csv), Selected)

\* C7 (as claimed): after the edit dialog is accepted on a store it shows as
\* it is, the store's row at every position is the table's row for that
\* position.
C7_EditMatchesRowsByPosition ==
    (ev.op = "edit" /\ Fresh) =>
        csv_data = << Header >> \o Reverse(ev.trows)

\* C8 (as claimed): an edit of a row whose snapshot no longer matches the
\* store's row at that position is refused with an error and leaves csv_data
\* and the dirty flag as they were.
C8_StaleEditIsRefused ==
    (ev.op = "edit" /\ StaleRows # {}) =>
        /\ ~ev.accepted
        /\ ev.reported # << >>
        /\ csv_data = ev.pre_csv
        /\ modified = ev.pre_modified

\* C9 (as claimed): the store is the header line followed by lines of exactly
\* four comma-separated fields each, none of them empty lines.
C9_FormatInvariant ==
    /\ csv_data[1] = Header
    /\ \A i \in 2..Len(csv_data) : Len(Split(csv_data[i])) = 4

\* the parts of C10 about the rows: an accepted append, an edit that changes
\* a row and a removal of a row set the dirty flag; an edit that changes no
\* cell and a removal of no row leave csv_data and the flag as they were
RowMutationsSetDirty ==
    /\ (AddRan /\ ev.accepted) => modified
    /\ (ev.op = "edit" /\ Edited # {}) => modified
    /\ (ev.op = "remove" /\ Selected # {}) => modified
    /\ (ev.op = "edit" /\ Edited = {}) =>
          (csv_data = ev.pre_csv /\ modified = ev.pre_modified)
    /\ (ev.op = "remove" /\ Selected = {}) =>
          (csv_data = ev.pre_csv /\ modified = ev.pre_modified)

----------------------------------------------------------------------------
(* Properties of the duration field *)

\* a text that is a decimal number without a sign: digits with at most one
\* "." and at least one digit
NonNegativeDecimal(s) ==
    /\ \A i \in 1..Len(s) : s[i] \in Digits \cup {"."}
    /\ Cardinality({i \in 1..Len(s) : s[i] = "."}) <= 1
    /\ \E i \in 1..Len(s) : s[i] \in Digits

\* C17 (as claimed): in day time base a batch is appended only if every
\* duration in it is a non-negative decimal number, and then each duration is
\* stored as it was typed; a batch holding a negative or non-numeric duration
\* leaves the store as it was.
C17_DayDurationIsNonNegativeDecimal ==
    (AddRan /\ timebase = "day") =>
        IF \A i \in 1..Len(ev.rows) : NonNegativeDecimal(ev.rows[i][2])
        THEN ev.accepted =>
                \A i \in 1..Len(ev.rows) :
                    Split(csv_data[Len(ev.pre_csv) + i])[2] = ev.rows[i][2]
        ELSE csv_data = ev.pre_csv /\ ~ev.accepted

----------------------------------------------------------------------------
(* Properties of the config and of the files *)

\* C15 (as claimed): after the handler that sets a new rate or currency, the
\* session's rate and currency are the ones the config file holds.
C15_SessionAndConfigAgree ==
    ev.op = "saveChanges" =>
        (rate = conffile.rate /\ currency = conffile.currency)

\* C16 (as claimed): if the process is stopped during a save, the csv file
\* holds either all of its previous content or all of the new content.
C16_InterruptedSaveLeavesOldOrNew ==
    ev.op = "save_interrupted" =>
        (csvfile = ev.pre_file \/ csvfile = ev.pre_csv)

----------------------------------------------------------------------------
(* Properties of the sessions *)

\* the text closeEvent is to write for a session built with project p
NameOf(p) == IF p = PyNone THEN NoneText ELSE p

\* C11 (as claimed): after closeEvent the changes of the open timesheet are
\* in its csv file and the key `last` holds the name of the session that was
\* open (None if there was none); `last` is not written if the save failed.
C11_CloseSavesThenWritesLast ==
    ev.op = "closeEvent" =>
        /\ (ev.pre_modified /\ ev.pre_project # PyNone) =>
              (dir_exists /\ csvfile = ev.pre_csv)
        /\ last = NameOf(ev.pre_project)
        /\ ev.raised => last = ev.pre_last

\* C12 (as claimed): a start after a close with timesheet X open opens the
\* session of X; a start opens the session without timesheet exactly when
\* the key `last` held None or the global config file was missing, and then
\* the file exists afterwards.
C12_StartupRestoresLastOpened ==
    ev.op = "initUI" =>
        /\ (ev.closed # Missing /\ ev.closed # PyNone) =>
              (alive /\ project = ev.closed)
        /\ (alive /\ project = PyNone) <=>
              (ev.pre_last = NoneText \/ ev.pre_last = Missing)
        /\ ev.pre_last = Missing => last = NoneText

\* C13 (as claimed): the session's timesheet is never one whose directory
\* has been deleted, and the key `last` never names one.
C13_DeletedIsNeverActive ==
    /\ (alive /\ project # PyNone) => dir_exists
    /\ (last # Missing /\ last # NoneText) => Disk[last].exists

\* C14 (as claimed): make_new with a name that is taken (after whitespace
\* became underscores) reports name_error and changes no file; an accepted
\* make_new had a name and a rate that are not empty and a name that was
\* free, leaves the other timesheets alone, and the new timesheet's csv file
\* is the header line and its config holds the name and the rate.
C14_CreateIsAllOrNothing ==
    ev.op = "make_new" =>
        LET nm == underscored(ev.typed[1])
        IN  /\ (/\ ev.typed[2] # PyNone
                /\ nm \in DirNames
                /\ ev.pre_disk[nm].exists) =>
                  /\ ev.reported = << << "name_error" >> >>
                  /\ ~ev.accepted
                  /\ Disk = ev.pre_disk
            /\ ev.accepted =>
                  /\ ev.typed[1] \notin {PyNone, << >>}
                  /\ ev.typed[2] \notin {PyNone, << >>}
                  /\ ~ev.pre_disk[nm].exists
                  /\ \A n \in DirNames \ {nm} : Disk[n] = ev.pre_disk[n]
                  /\ Disk[nm].csv = << Header >>
                  /\ Disk[nm].conf.name = nm
                  /\ Disk[nm].conf.rate = ev.typed[2]

\* the last handler replaced the main window's session
Replaced ==
    \/ ev.op = "make_new" /\ ev.accepted
    \/ ev.op = "setOpenVars" /\ ~ev.raised
    \/ ev.op = "delete" /\ ev.accepted /\ ev.pre_name \in ev.selected

\* the user chose to lose the outgoing session's changes: Discard in the
\* save prompt, or the deletion of its timesheet
Discarded ==
    \/ ev.op = "make_new" /\ ev.prompt = "discard"
    \/ ev.op = "delete" /\ ev.pre_project \in ev.selected

\* C18 (as claimed): when the session is replaced, the outgoing session was
\* not dirty, or its csv file held its csv_data, or the user chose to discard
\* the changes; Cancel in the save prompt leaves the session as it is.
C18_NoChangeSilentlyLost ==
    /\ Replaced =>
          \/ ~ev.pre_modified
          \/ /\ ev.pre_project # PyNone
             /\ ev.pre_disk[ev.pre_project].exists
             /\ ev.pre_file = ev.pre_csv
          \/ Discarded
    /\ (ev.op = "newTimesheet" /\ ev.choice = "cancel") =>
          (project = ev.pre_project /\ csv_data = ev.pre_csv /\ modified)

====
